---- MODULE Spec2Model ----
(***************************************************************************)
(* Handler dispatch core of esmerald (esmerald/routing/base.py):           *)
(* dependency merge over the ownership layers, permission resolution and   *)
(* evaluation, the handler call with its kwargs, response-strategy         *)
(* selection, the five response strategies and the cookie merge.           *)
(***************************************************************************)
EXTENDS Integers, Sequences, FiniteSets, TLC

\* ------------------------------------------------------------------ bounds
NumLayers == 2        \* length of the ownership chain, root = 1, handler = NumLayers
MaxMutations == 1     \* assignments to a layer's mapping after construction
MaxKwargsModels == 2  \* KwargsModel objects built for the handler
MaxPerms == 2         \* entries of one layer's permissions sequence
MaxCookies == 2       \* length of a cookie list

Keys == {"a", "b"}    \* dependency keys
Providers == {1, 2}   \* dependency providers (the callables wrapped by Inject)
Layers == 1..NumLayers
Handler == NumLayers

\* ------------------------------------------------- python dicts, in order
\* A dict is a sequence of items with pairwise distinct keys, in insertion order.
Item(k, v) == [key |-> k, value |-> v]

DictKeys(d) == {d[i].key : i \in 1..Len(d)}

IsDict(d) == \A i, j \in 1..Len(d) : d[i].key = d[j].key => i = j

\* d[key] = value that keeps the value of an existing key (first binding wins).
DictSetKeepFirst(d, k, v) ==
    IF k \in {d[i].key : i \in 1..Len(d)} THEN d ELSE Append(d, [key |-> k, value |-> v])

\* d[key] = value : an existing key keeps its position, a new key is appended.
DictSet(d, k, v) ==
    IF k \in DictKeys(d)
    THEN [i \in 1..Len(d) |-> IF d[i].key = k THEN Item(k, v) ELSE d[i]]
    ELSE Append(d, Item(k, v))

DictGet(d, k) == LET i == CHOOSE i \in 1..Len(d) : d[i].key = k IN d[i].value

\* All dicts from Keys to Providers, in every insertion order.
DictValues ==
    {d \in UNION {[1..n -> [key : Keys, value : Providers]] : n \in 0..Cardinality(Keys)} :
        IsDict(d)}

\* An optional mapping attribute of a layer: None or a dict.
None == [none |-> TRUE, items |-> <<>>]
Some(d) == [none |-> FALSE, items |-> d]
OptionalDicts == {None} \cup {Some(d) : d \in DictValues}

\* `x or {}`
OrEmptyDict(x) == IF x.none \/ x.items = <<>> THEN <<>> ELSE x.items

VARIABLES
    layer_dependencies,  \* layer -> its `dependencies` attribute
    signature_model,     \* handler.signature_model is set
    dependencies,        \* handler._dependencies: the slot, Void when ~set
    inject_signature,    \* provider -> Inject.signature_model is set
    kwargs_model,        \* KwargsModel objects built so far; the last one is bound, 0 is unset
    deps_ret,            \* outcome of the most recent get_dependencies invocation
    deps_walks,          \* how many times the layers were walked for dependencies
    last_op,             \* the operation performed by the last step
    mutations            \* layer mappings assigned since construction

VARIABLES
    layer_permissions,   \* layer -> its `permissions` attribute
    permissions,         \* handler._permissions: the slot, Void when ~set
    perm_builds,         \* how many times resolve_permissions built the list
    perm_ret,            \* the list returned by the most recent resolve_permissions
    route,               \* the handler as dispatch sees it: parameters, owner, fn
    pool,                \* the connections that may arrive
    active,              \* the tasks (one per inbound connection) that may run
    pc,                  \* task -> where its dispatch stands
    conn,                \* task -> the connection it serves
    iter,                \* task -> the permission list allow_connection iterates
    idx,                 \* task -> position in that list
    instantiated,        \* task -> permissions instantiated, in order
    evaluated,           \* task -> permissions asked has_permission, in order
    kwargs,              \* task -> names bound in kwargs so far, in order
    dep_idx,             \* task -> position in expected_dependencies
    invoked,             \* task -> times the handler function ran for this connection
    call,                \* task -> how the handler function was called
    trace,               \* task -> what _get_response_data called so far, in order
    response             \* task -> what the response handler made of the return value

deps_vars == <<layer_dependencies, signature_model, dependencies, inject_signature,
               kwargs_model, deps_ret, deps_walks, last_op, mutations>>
perm_vars == <<layer_permissions, permissions, perm_builds, perm_ret>>
task_vars == <<route, pool, active, pc, conn, iter, idx, instantiated, evaluated,
               kwargs, dep_idx, invoked, call, trace, response>>
call_vars == <<kwargs, dep_idx, invoked, call, trace, response>>

VARIABLES
    annotation,          \* the return annotation of handler.fn
    response_handler,    \* handler._response_handler: the slot, Void when ~set
    rh_builds,           \* how many closures get_response_handler created
    rh_ret,              \* the closure returned by the most recent get_response_handler
    resp_ran,            \* the strategy that handled the most recent value
    handler_config,      \* the handler's status code, media type, headers, cookies, ...
    returned,            \* the value as the handler function returned it
    produced,            \* the response the response handler made of it
    local_cookies,       \* get_cookies: its first argument
    other_cookies,       \* get_cookies: its second argument
    cookies_ret          \* get_cookies: what the most recent call returned

resp_vars == <<annotation, response_handler, rh_builds, rh_ret, resp_ran, handler_config,
               returned, produced>>
cookie_vars == <<local_cookies, other_cookies, cookies_ret>>

VARIABLES
    layer_exception_handlers,  \* layer -> its `exception_handlers` attribute
    exc_ret                    \* what the most recent get_exception_handlers returned

exc_vars == <<layer_exception_handlers, exc_ret>>

vars == <<deps_vars, perm_vars, task_vars, resp_vars, cookie_vars, exc_vars>>

\* ------------------------------------------------------- ownership layers
\* owner back-reference; 0 is None.
Owner(layer) == layer - 1

RECURSIVE OwnerChain(_)
\* the `while current:` loop: self first, then each owner.
OwnerChain(current) ==
    IF current = 0 THEN <<>> ELSE <<current>> \o OwnerChain(Owner(current))

Reversed(s) == [i \in 1..Len(s) |-> s[Len(s) + 1 - i]]

\* ownership_layers without the final reversal: handler first, root last.
ownership_layers_leaf_first(self) == OwnerChain(self)

ownership_layers(self) == Reversed(OwnerChain(self))

\* --------------------------------------------------------- dependencies
\* Inject.__eq__: two injects are equal when they wrap the same provider.
InjectEq(x, y) == x = y

\* TRUE when has_dependency_unique returns, FALSE when it raises.
has_dependency_unique(deps, key, injector) ==
    \A i \in 1..Len(deps) : ~InjectEq(injector, deps[i].value)

\* the key named second in the error message: the first equal entry.
DuplicateKey(deps, injector) ==
    LET i == CHOOSE i \in 1..Len(deps) :
                 /\ InjectEq(injector, deps[i].value)
                 /\ \A j \in 1..(i - 1) : ~InjectEq(injector, deps[j].value)
    IN deps[i].key

RECURSIVE LayerItems(_, _)
\* the items of the layers in walk order: layer by layer, each in dict order.
LayerItems(layers, ld) ==
    IF layers = <<>> THEN <<>>
    ELSE OrEmptyDict(ld[Head(layers)]) \o LayerItems(Tail(layers), ld)

RECURSIVE WalkDependencies(_, _)
\* the nested loops of get_dependencies over the remaining items, acc being
\* self._dependencies so far; stops at the first raise, leaving acc as it is.
WalkDependencies(items, acc) ==
    IF items = <<>>
    THEN [raised |-> FALSE, deps |-> acc, key |-> "", dependency_key |-> ""]
    ELSE LET it == Head(items) IN
         IF ~has_dependency_unique(acc, it.key, it.value)
         THEN [raised |-> TRUE, deps |-> acc, key |-> it.key,
               dependency_key |-> DuplicateKey(acc, it.value)]
         ELSE WalkDependencies(Tail(items), DictSet(acc, it.key, it.value))

Void == [set |-> FALSE, id |-> 0, map |-> <<>>]

NoRet == [kind |-> "none", id |-> 0, map |-> <<>>, walked |-> FALSE,
          key |-> "", dependency_key |-> ""]

\* get_dependencies without the `is Void` test: walks the layers on every call.
get_dependencies_rebuild(sigmodel, slot, ld, walks) ==
    LET w == WalkDependencies(LayerItems(ownership_layers(Handler), ld), <<>>)
        new == [set |-> TRUE, id |-> walks + 1, map |-> w.deps]
    IN IF ~sigmodel
       THEN [ret |-> [NoRet EXCEPT !.kind = "RuntimeError"], slot |-> slot, walks |-> walks]
       ELSE IF w.raised
       THEN [ret |-> [kind |-> "ImproperlyConfigured", id |-> 0, map |-> <<>>,
                      walked |-> TRUE, key |-> w.key,
                      dependency_key |-> w.dependency_key],
             slot |-> new, walks |-> walks + 1]
       ELSE [ret |-> [NoRet EXCEPT !.kind = "return", !.id = new.id,
                                   !.map = new.map, !.walked = TRUE],
             slot |-> new, walks |-> walks + 1]

\* get_dependencies without the signature-model test: resolves in any order.
get_dependencies_any_order(sigmodel, slot, ld, walks) ==
    get_dependencies_rebuild(TRUE, slot, ld, walks)

\* get_dependencies as a function of the state: the outcome, the slot and the
\* walk count it leaves.
get_dependencies(sigmodel, slot, ld, walks) ==
    IF ~sigmodel
    THEN [ret |-> [NoRet EXCEPT !.kind = "RuntimeError"], slot |-> slot, walks |-> walks]
    ELSE IF ~slot.set
    THEN LET w == WalkDependencies(LayerItems(ownership_layers(Handler), ld), <<>>)
             new == [set |-> TRUE, id |-> walks + 1, map |-> w.deps]
         IN IF w.raised
            THEN [ret |-> [kind |-> "ImproperlyConfigured", id |-> 0, map |-> <<>>,
                           walked |-> TRUE, key |-> w.key,
                           dependency_key |-> w.dependency_key],
                  slot |-> new, walks |-> walks + 1]
            ELSE [ret |-> [NoRet EXCEPT !.kind = "return", !.id = new.id,
                                        !.map = new.map, !.walked = TRUE],
                  slot |-> new, walks |-> walks + 1]
    ELSE [ret |-> [NoRet EXCEPT !.kind = "return", !.id = slot.id, !.map = slot.map],
          slot |-> slot, walks |-> walks]

\* ----------------------------------------------------------- permissions
Perms == {"p", "q"}   \* permission classes
Tasks == {"t1", "t2"}   \* dispatch tasks, one per inbound connection

\* An optional sequence attribute of a layer: None or a list.
NoneList == [none |-> TRUE, items |-> <<>>]
SomeList(l) == [none |-> FALSE, items |-> l]
PermLists == UNION {[1..n -> Perms] : n \in 0..MaxPerms}
OptionalPermLists == {NoneList} \cup {SomeList(l) : l \in PermLists}

\* `x or []`
OrEmptyList(x) == IF x.none \/ x.items = <<>> THEN <<>> ELSE x.items

\* the permissions declared as asynchronous callables; the others are plain
\* classes, synchronous to call
AsyncPerms == {"q"}

\* AsyncCallable that keeps whatever callable it is given as its fn.
AsyncCallableAsGiven(fn) == [fn |-> fn, via |-> "direct"]

\* AsyncCallable(permission): the wrapper kept in the resolved list; its fn is
\* the callable itself when that is asynchronous, an asynchronous wrapper
\* around it otherwise
AsyncCallable(fn) ==
    [fn |-> fn, via |-> IF fn \in AsyncPerms THEN "direct" ELSE "async_wrapper"]

\* is_async_callable(wrapper.fn)
is_async_callable(wrapper) == wrapper.via = "async_wrapper" \/ wrapper.fn \in AsyncPerms

RECURSIVE ExtendAll(_, _)
\* the loop `for layer in ownership_layers: _permissions.extend(layer.permissions or [])`
ExtendAll(layers, lp) ==
    IF layers = <<>> THEN <<>>
    ELSE OrEmptyList(lp[Head(layers)]) \o ExtendAll(Tail(layers), lp)

VoidList == [set |-> FALSE, id |-> 0, list |-> <<>>]

\* resolve_permissions without the `is Void` test: builds a list on every call.
resolve_permissions_rebuild(slot, lp, builds) ==
    LET raw == ExtendAll(ownership_layers(Handler), lp)
        wrapped == [i \in 1..Len(raw) |-> AsyncCallable(raw[i])]
    IN [slot |-> [set |-> TRUE, id |-> builds + 1, list |-> wrapped], builds |-> builds + 1]

\* resolve_permissions as a function of the state: the slot it leaves (which
\* is also what it returns) and the count of builds.  A build extends a raw
\* list layer by layer and then puts the list of wrappers in the slot; there
\* is no await in between, so a build is one step.
resolve_permissions(slot, lp, builds) ==
    IF ~slot.set
    THEN LET raw == ExtendAll(ownership_layers(Handler), lp)
             wrapped == [i \in 1..Len(raw) |-> AsyncCallable(raw[i])]
         IN [slot |-> [set |-> TRUE, id |-> builds + 1, list |-> wrapped],
             builds |-> builds + 1]
    ELSE [slot |-> slot, builds |-> builds]

\* a connection: the permission classes whose has_permission grants it,
\* whether it carries a body to read, whether its values pass validation
Connections == [grants : SUBSET Perms, body : BOOLEAN, valid : BOOLEAN]
NoConnection == [grants |-> {}, body |-> FALSE, valid |-> FALSE]

\* permission.has_permission(connection, handler)
has_permission(permission, connection) == permission \in connection.grants

\* continue_or_raise_permission_exception: TRUE when it returns, FALSE when it
\* raises PermissionDenied
continue_or_raise_permission_exception(connection, permission) ==
    has_permission(permission, connection)

\* ------------------------------------------------------ response handler
\* the classes get_response_handler tests the annotation against
Classes == {"ResponseContainer", "JSONResponse", "ORJSONResponse", "Response",
            "StarletteResponse"}

\* a return annotation: a class, with those of Classes it is or derives from,
\* or something that is not a class (None, a generic alias, ...)
NotAClass == [is_class |-> FALSE, bases |-> {}]
Annotations == {NotAClass} \cup {[is_class |-> TRUE, bases |-> b] : b \in SUBSET Classes}

\* the runtime shape of a value handed to the response handler
ValueKinds == Classes \cup {"plain", "awaitable"}

\* is_class_and_subclass(value, types): value is a class and issubclass(value, types)
is_class_and_subclass(value, types) == value.is_class /\ value.bases \cap types # {}

\* the if/elif chain with the generic Response test ahead of the JSON test.
SelectHandlerResponseFirst(ann) ==
    IF is_class_and_subclass(ann, {"ResponseContainer"}) THEN "container"
    ELSE IF is_class_and_subclass(ann, {"Response"}) THEN "response"
    ELSE IF is_class_and_subclass(ann, {"JSONResponse", "ORJSONResponse"}) THEN "json"
    ELSE IF is_class_and_subclass(ann, {"StarletteResponse"}) THEN "starlette"
    ELSE "plain"

\* the if/elif chain of get_response_handler: which create_*_handler is used
SelectHandler(ann) ==
    IF is_class_and_subclass(ann, {"ResponseContainer"}) THEN "container"
    ELSE IF is_class_and_subclass(ann, {"JSONResponse", "ORJSONResponse"}) THEN "json"
    ELSE IF is_class_and_subclass(ann, {"Response"}) THEN "response"
    ELSE IF is_class_and_subclass(ann, {"StarletteResponse"}) THEN "starlette"
    ELSE "plain"

VoidHandler == [set |-> FALSE, id |-> 0, strategy |-> "none"]

\* get_response_handler without the `is Void` test: a new closure on every call.
get_response_handler_rebuild(slot, ann, builds) ==
    [slot |-> [set |-> TRUE, id |-> builds + 1, strategy |-> SelectHandler(ann)],
     builds |-> builds + 1]

\* get_response_handler as a function of the state: the slot it leaves (which
\* is also what it returns) and the count of closures created.
get_response_handler(slot, ann, builds) ==
    IF ~slot.set
    THEN [slot |-> [set |-> TRUE, id |-> builds + 1, strategy |-> SelectHandler(ann)],
          builds |-> builds + 1]
    ELSE [slot |-> slot, builds |-> builds]

NotRan == [strategy |-> "none", id |-> 0, data |-> "none"]

\* to_response(app, data): fetches the response handler and awaits it on data
to_response(slot, ann, builds, data) ==
    LET r == get_response_handler(slot, ann, builds) IN
    [slot |-> r.slot, builds |-> r.builds,
     ran |-> [strategy |-> r.slot.strategy, id |-> r.slot.id, data |-> data]]

\* ---------------------------------------------------------------- cookies
NoneValue == "None"

CookieFields == {"key", "value", "max_age", "expires", "path", "domain", "secure",
                 "httponly", "samesite", "description"}

\* Cookie(key=..., value=..., max_age=..., description=...), the other fields
\* at their defaults
Cookie(key, value, max_age, description) ==
    [key |-> key, value |-> value, max_age |-> max_age, expires |-> NoneValue,
     path |-> "/", domain |-> NoneValue, secure |-> NoneValue,
     httponly |-> NoneValue, samesite |-> "lax", description |-> description]

CookieUniverse ==
    {Cookie("a", "1", NoneValue, NoneValue), Cookie("a", "2", "60", "session"),
     Cookie("b", "3", NoneValue, "tracking"), Cookie("b", NoneValue, NoneValue, NoneValue)}

CookieLists == UNION {[1..n -> CookieUniverse] : n \in 0..MaxCookies}

\* cookie.dict(exclude_none=True, exclude={"description"})
cookie_dict(cookie) ==
    [f \in {g \in CookieFields \ {"description"} : cookie[g] # NoneValue} |-> cookie[f]]

RECURSIVE FilterCookies(_, _)
\* the loop over other_cookies, filtered being filtered_cookies so far
FilterCookies(other, filtered) ==
    IF other = <<>> THEN filtered
    ELSE IF ~\E i \in 1..Len(filtered) : Head(other).key = filtered[i].key
         THEN FilterCookies(Tail(other), Append(filtered, Head(other)))
         ELSE FilterCookies(Tail(other), filtered)

\* get_cookies with the two lists taken the other way round.
get_cookies_other_first(local, other) ==
    LET filtered == FilterCookies(local, other) IN
    [i \in 1..Len(filtered) |-> cookie_dict(filtered[i])]

get_cookies(local, other) ==
    LET filtered == FilterCookies(other, local) IN
    [i \in 1..Len(filtered) |-> cookie_dict(filtered[i])]

NoCookiesRet == [set |-> FALSE, list |-> <<>>]

\* ------------------------------------------------- response strategies
RECURSIVE DictUpdate(_, _)
\* {**d, **e}: the items of e assigned onto d, in order
DictUpdate(d, e) ==
    IF e = <<>> THEN d ELSE DictUpdate(DictSet(d, Head(e).key, Head(e).value), Tail(e))

\* ResponseHeader(value=...)
ResponseHeader(value) == [value |-> value]

\* get_headers(headers): {k: v.value for k, v in headers.items()}
get_headers(headers) ==
    [i \in 1..Len(headers) |-> Item(headers[i].key, headers[i].value.value)]

\* a media type: None, a member of the MediaType enum, or a plain string
NoMedia == [kind |-> "None", value |-> ""]
EnumMedia(value) == [kind |-> "enum", value |-> value]
StrMedia(value) == [kind |-> "str", value |-> value]

\* self.media_type.value if isinstance(self.media_type, Enum) else self.media_type
media_type_value(m) == IF m.kind = "enum" THEN StrMedia(m.value) ELSE m

\* a status code; NoStatus stands for None, falsy like it
NoStatus == 0
Truthy(status_code) == status_code # NoStatus

\* an object a handler function returns, or a response made of it: its class,
\* whether it is the returned object or a new one, and its attributes;
\* set_cookies are the set_cookie calls made on it, in order
Object(cls, content, status_code, media_type, headers, cookies) ==
    [cls |-> cls, id |-> "data", awaitable |-> FALSE, content |-> content,
     status_code |-> status_code, media_type |-> media_type, headers |-> headers,
     cookies |-> cookies, background |-> "own", set_cookies |-> <<>>]

\* a value that is not a response: a dict, a string, ...
PlainValue(content) == Object("plain", content, NoStatus, NoMedia, <<>>, <<>>)

NoData == Object("none", "none", NoStatus, NoMedia, <<>>, <<>>)

\* ResponseContainer.to_response(headers, media_type, status_code, app): the
\* response a container builds of itself from what it is handed
container_to_response(data, headers, media_type, status_code) ==
    [Object("Response", data.content, status_code, media_type, headers, <<>>)
        EXCEPT !.id = "new", !.background = data.background]

\* response_class(background=, content=, headers=, media_type=, status_code=)
response_class(cls, background, content, headers, media_type, status_code) ==
    [Object(cls, content, status_code, media_type, headers, <<>>)
        EXCEPT !.id = "new", !.background = background]

\* get_response_data(data): the value, awaited when it is awaitable
get_response_data(data) == [data EXCEPT !.awaitable = FALSE]

\* create_response_container_handler with the handler's headers merged last.
create_response_container_handler_handler_last(h, data) ==
    LET _headers == DictUpdate(data.headers, get_headers(h.headers))
        _cookies == get_cookies(data.cookies, h.cookies)
        made == container_to_response(data, _headers, h.media_type, h.status_code)
    IN [made EXCEPT !.set_cookies = @ \o _cookies]

\* the closure of create_response_container_handler, on the handler h
create_response_container_handler(h, data) ==
    LET _headers == DictUpdate(get_headers(h.headers), data.headers)
        _cookies == get_cookies(data.cookies, h.cookies)
        made == container_to_response(data, _headers, h.media_type, h.status_code)
    IN [made EXCEPT !.set_cookies = @ \o _cookies]

\* create_response_handler without the `if status_code` and `if media_type`
\* tests.
create_response_handler_unconditional(h, data) ==
    LET _cookies == get_cookies(data.cookies, h.cookies)
        _headers == DictUpdate(DictUpdate(get_headers(h.headers), data.headers),
                               h.allow_header)
    IN [data EXCEPT !.set_cookies = @ \o _cookies,
                    !.status_code = h.status_code,
                    !.media_type = h.media_type,
                    !.headers = DictUpdate(@, _headers)]

\* the closure of create_response_handler
create_response_handler(h, data) ==
    LET _cookies == get_cookies(data.cookies, h.cookies)
        _headers == DictUpdate(DictUpdate(get_headers(h.headers), data.headers),
                               h.allow_header)
    IN [data EXCEPT !.set_cookies = @ \o _cookies,
                    !.status_code = IF Truthy(h.status_code) THEN h.status_code ELSE @,
                    !.media_type = IF h.media_type.kind # "None" THEN h.media_type ELSE @,
                    !.headers = DictUpdate(@, _headers)]

\* create_json_response_handler that also assigns the handler's headers.
create_json_response_handler_with_headers(h, data) ==
    [data EXCEPT !.status_code = IF Truthy(h.status_code) THEN h.status_code ELSE @,
                 !.headers = DictUpdate(@, get_headers(h.headers))]

\* the closure of create_json_response_handler
create_json_response_handler(h, data) ==
    [data EXCEPT !.status_code = IF Truthy(h.status_code) THEN h.status_code ELSE @]

\* create_starlette_response_handler with an `if media_type` test.
create_starlette_response_handler_if_media(h, data) ==
    LET _cookies == get_cookies(h.cookies, <<>>)
        _headers == DictUpdate(DictUpdate(get_headers(h.headers), data.headers),
                               h.allow_header)
    IN [data EXCEPT !.set_cookies = @ \o _cookies,
                    !.media_type = IF h.media_type.kind # "None" THEN h.media_type ELSE @,
                    !.headers = DictUpdate(@, _headers)]

\* the closure of create_starlette_response_handler
create_starlette_response_handler(h, data) ==
    LET _cookies == get_cookies(h.cookies, <<>>)
        _headers == DictUpdate(DictUpdate(get_headers(h.headers), data.headers),
                               h.allow_header)
    IN [data EXCEPT !.set_cookies = @ \o _cookies,
                    !.media_type = h.media_type,
                    !.headers = DictUpdate(@, _headers)]

\* create_handler that leaves the status code to the response class.
create_handler_default_status(h, data) ==
    LET value == get_response_data(data)
        _cookies == get_cookies(h.cookies, <<>>)
        made ==
            IF value.cls \in {"JSONResponse", "ORJSONResponse"}
            THEN [value EXCEPT !.status_code = h.status_code,
                               !.background = h.background]
            ELSE response_class(h.response_class, h.background, value.content,
                                h.headers, media_type_value(h.media_type), NoStatus)
    IN [made EXCEPT !.set_cookies = @ \o _cookies]

\* the closure of create_handler
create_handler(h, data) ==
    LET value == get_response_data(data)
        _cookies == get_cookies(h.cookies, <<>>)
        made ==
            IF value.cls \in {"JSONResponse", "ORJSONResponse"}
            THEN [value EXCEPT !.status_code = h.status_code,
                               !.background = h.background]
            ELSE response_class(h.response_class, h.background, value.content,
                                h.headers, media_type_value(h.media_type),
                                h.status_code)
    IN [made EXCEPT !.set_cookies = @ \o _cookies]

\* what a handler is configured with: its status code, media type, response
\* headers and cookies, background task, response class and allow header
HandlerConfig(status_code, media_type, headers, cookies, background, allow_header) ==
    [status_code |-> status_code, media_type |-> media_type, headers |-> headers,
     cookies |-> cookies, background |-> background, response_class |-> "Response",
     allow_header |-> allow_header]

DefaultHandler == HandlerConfig(NoStatus, NoMedia, <<>>, <<>>, "None", <<>>)

\* the closure get_response_handler selected, called on data
RunHandler(strategy, h, data) ==
    CASE strategy = "container" -> create_response_container_handler(h, data)
      [] strategy = "json" -> create_json_response_handler(h, data)
      [] strategy = "response" -> create_response_handler(h, data)
      [] strategy = "starlette" -> create_starlette_response_handler(h, data)
      [] OTHER -> create_handler(h, data)

\* ----------------------------------------------------- exception handlers
ExcTypes == {"ValueError", "NotFound"}   \* exception types (or status codes)
ExcHandlers == {"f", "g"}                \* exception handler functions

\* every exception_handlers mapping, in every insertion order
ExcDicts ==
    {d \in UNION {[1..n -> [key : ExcTypes, value : ExcHandlers]] :
                     n \in 0..Cardinality(ExcTypes)} : IsDict(d)}
OptionalExcDicts == {None} \cup {Some(d) : d \in ExcDicts}

RECURSIVE UpdateAll(_, _, _)
\* the loop `for layer in ownership_layers: resolved.update(layer.exception_handlers or {})`
UpdateAll(layers, leh, resolved) ==
    IF layers = <<>> THEN resolved
    ELSE UpdateAll(Tail(layers), leh, DictUpdate(resolved, OrEmptyDict(leh[Head(layers)])))

\* get_exception_handlers(): a new dict on every call, filled layer by layer;
\* called are the exception handlers it invokes on the way
get_exception_handlers(leh) ==
    [set |-> TRUE, map |-> UpdateAll(ownership_layers(Handler), leh, <<>>), called |-> {}]

NoExcRet == [set |-> FALSE, map |-> <<>>, called |-> {}]

\* ---------------------------------------------------------------- dispatch
\* parameter_model.to_kwargs(connection): the names of the raw values it
\* extracts; "data" is there when the connection carries a body
to_kwargs(connection) == IF connection.body THEN <<"data">> ELSE <<>>

\* the resolved value dropped instead of being bound.
BindKwargDropped(kw, name) == kw

\* kwargs[name] = value
BindKwarg(kw, name) ==
    IF \E i \in 1..Len(kw) : kw[i] = name THEN kw ELSE Append(kw, name)

\* an entry of parameter_model.expected_dependencies: the key it is bound
\* under and the parameters of its provider
Dependency(key, requires) == [key |-> key, requires |-> requires]

\* signature_model.parse_values_from_connection_kwargs(connection, **kwargs)
\* when it does not raise: every raw value coerced to its declared type
parse_values_from_connection_kwargs(kw) ==
    [i \in 1..Len(kw) |-> [name |-> kw[i], coerced |-> TRUE]]

\* one call made by _get_response_data: what was called, for which key, and
\* the kwargs it was handed
Event(ev, key, had) == [ev |-> ev, key |-> key, had |-> had]

\* ------------------------------------------------------------ idle state
PermsUnused ==
    /\ layer_permissions = [l \in Layers |-> NoneList]
    /\ permissions = VoidList
    /\ perm_builds = 0
    /\ perm_ret = VoidList

NoCall == [args |-> <<>>, kwargs |-> <<>>]

TasksIdle ==
    /\ pc = [t \in Tasks |-> "idle"]
    /\ conn = [t \in Tasks |-> NoConnection]
    /\ iter = [t \in Tasks |-> VoidList]
    /\ idx = [t \in Tasks |-> 0]
    /\ instantiated = [t \in Tasks |-> <<>>]
    /\ evaluated = [t \in Tasks |-> <<>>]
    /\ kwargs = [t \in Tasks |-> <<>>]
    /\ dep_idx = [t \in Tasks |-> 0]
    /\ invoked = [t \in Tasks |-> 0]
    /\ call = [t \in Tasks |-> NoCall]
    /\ trace = [t \in Tasks |-> <<>>]
    /\ response = [t \in Tasks |-> NotRan]

\* a handler without parameters: a synchronous function owned by no controller
PlainRoute == [has_kwargs |-> FALSE, expected_dependencies |-> <<>>,
               owner_is_apiview |-> FALSE, fn_is_async |-> FALSE, returns |-> "plain"]

TasksUnused == route = PlainRoute /\ pool = {} /\ active = {} /\ TasksIdle

DepsUnused ==
    /\ layer_dependencies = [l \in Layers |-> None]
    /\ signature_model = FALSE
    /\ dependencies = Void
    /\ inject_signature = [p \in Providers |-> FALSE]
    /\ kwargs_model = 0
    /\ deps_ret = NoRet
    /\ deps_walks = 0
    /\ last_op = "init"
    /\ mutations = 0

RespUnused ==
    /\ annotation = NotAClass
    /\ response_handler = VoidHandler
    /\ rh_builds = 0
    /\ rh_ret = VoidHandler
    /\ resp_ran = NotRan
    /\ handler_config = DefaultHandler
    /\ returned = NoData
    /\ produced = NoData

ExcUnused ==
    /\ layer_exception_handlers = [l \in Layers |-> None]
    /\ exc_ret = NoExcRet

CookiesUnused ==
    /\ local_cookies = <<>>
    /\ other_cookies = <<>>
    /\ cookies_ret = NoCookiesRet

\* ---------------------------------------------------------------- actions
\* a direct call of handler.get_dependencies()
GetDependencies ==
    LET r == get_dependencies(signature_model, dependencies, layer_dependencies, deps_walks) IN
    /\ dependencies' = r.slot
    /\ deps_ret' = r.ret
    /\ deps_walks' = r.walks
    /\ last_op' = "get_dependencies"
    /\ UNCHANGED <<layer_dependencies, signature_model, inject_signature, kwargs_model,
                   mutations>>
    /\ UNCHANGED <<perm_vars, task_vars, resp_vars, cookie_vars, exc_vars>>

\* handler.create_signature_model(): sets the signature model, then resolves
\* the dependencies, gives each resolved Inject its signature model, builds a
\* KwargsModel and binds it; a raise of get_dependencies ends it there.
CreateSignatureModel ==
    LET r == get_dependencies(TRUE, dependencies, layer_dependencies, deps_walks) IN
    /\ kwargs_model < MaxKwargsModels
    /\ signature_model' = TRUE
    /\ kwargs_model' = IF r.ret.kind = "return" THEN kwargs_model + 1 ELSE kwargs_model
    /\ dependencies' = r.slot
    /\ deps_ret' = r.ret
    /\ deps_walks' = r.walks
    /\ inject_signature' =
         IF r.ret.kind = "return"
         THEN [p \in Providers |->
                 inject_signature[p] \/ \E i \in 1..Len(r.ret.map) : r.ret.map[i].value = p]
         ELSE inject_signature
    /\ last_op' = "create_signature_model"
    /\ UNCHANGED <<layer_dependencies, mutations>>
    /\ UNCHANGED <<perm_vars, task_vars, resp_vars, cookie_vars, exc_vars>>

\* layer.dependencies[key] = provider, by the application, after construction
MutateLayer ==
    /\ mutations < MaxMutations
    /\ \E l \in Layers, k \in Keys, p \in Providers :
         layer_dependencies' =
           [layer_dependencies EXCEPT ![l] = Some(DictSet(OrEmptyDict(@), k, p))]
    /\ mutations' = mutations + 1
    /\ last_op' = "mutate"
    /\ UNCHANGED <<signature_model, dependencies, inject_signature, kwargs_model,
                   deps_ret, deps_walks>>
    /\ UNCHANGED <<perm_vars, task_vars, resp_vars, cookie_vars, exc_vars>>

\* a direct call of handler.resolve_permissions()
ResolvePermissions ==
    LET r == resolve_permissions(permissions, layer_permissions, perm_builds) IN
    /\ permissions' = r.slot
    /\ perm_builds' = r.builds
    /\ perm_ret' = r.slot
    /\ UNCHANGED <<layer_permissions, deps_vars, task_vars, resp_vars, cookie_vars, exc_vars>>

\* allow_connection(connection) up to its first await: the permission list is
\* resolved and, unless it is empty, the first permission() is awaited.
AllowConnection(t) ==
    /\ t \in active
    /\ pc[t] = "idle"
    /\ \E c \in pool :
         LET r == resolve_permissions(permissions, layer_permissions, perm_builds) IN
         /\ conn' = [conn EXCEPT ![t] = c]
         /\ permissions' = r.slot
         /\ perm_builds' = r.builds
         /\ perm_ret' = r.slot
         /\ iter' = [iter EXCEPT ![t] = r.slot]
         /\ idx' = [idx EXCEPT ![t] = IF r.slot.list = <<>> THEN 0 ELSE 1]
         /\ pc' = [pc EXCEPT ![t] = IF r.slot.list = <<>> THEN "allowed" ELSE "perm_await"]
    /\ UNCHANGED <<layer_permissions, route, pool, active, instantiated, evaluated, call_vars,
                   deps_vars, resp_vars, cookie_vars, exc_vars>>

\* allow_connection that goes on to the next permission after a denial.
AllowStepNoRaise(t) ==
    /\ t \in active
    /\ pc[t] = "perm_await"
    /\ LET permission == iter[t].list[idx[t]].fn
           last == idx[t] = Len(iter[t].list)
       IN /\ instantiated' = [instantiated EXCEPT ![t] = Append(@, permission)]
          /\ evaluated' = [evaluated EXCEPT ![t] = Append(@, permission)]
          /\ pc' = [pc EXCEPT ![t] = IF last THEN "allowed" ELSE "perm_await"]
          /\ idx' = [idx EXCEPT ![t] = IF last THEN @ ELSE @ + 1]
    /\ UNCHANGED <<route, pool, active, conn, iter, call_vars, perm_vars, deps_vars, resp_vars,
                   cookie_vars, exc_vars>>

\* allow_connection from the completion of one `await permission()` to the
\* next await, the raise or the return: the permission instance is asked
\* has_permission, continue_or_raise_permission_exception decides.
AllowStep(t) ==
    /\ t \in active
    /\ pc[t] = "perm_await"
    /\ LET permission == iter[t].list[idx[t]].fn
           last == idx[t] = Len(iter[t].list)
       IN /\ instantiated' = [instantiated EXCEPT ![t] = Append(@, permission)]
          /\ evaluated' = [evaluated EXCEPT ![t] = Append(@, permission)]
          /\ IF ~continue_or_raise_permission_exception(conn[t], permission)
             THEN /\ pc' = [pc EXCEPT ![t] = "denied"]
                  /\ UNCHANGED idx
             ELSE /\ pc' = [pc EXCEPT ![t] = IF last THEN "allowed" ELSE "perm_await"]
                  /\ idx' = [idx EXCEPT ![t] = IF last THEN @ ELSE @ + 1]
    /\ UNCHANGED <<route, pool, active, conn, iter, call_vars, perm_vars, deps_vars, resp_vars,
                   cookie_vars, exc_vars>>

\* the task is done with its connection and takes the next one
NextConnection(t) ==
    /\ t \in active
    /\ pc[t] \in {"allowed", "denied", "invalid", "done"}
    /\ pc' = [pc EXCEPT ![t] = "idle"]
    /\ conn' = [conn EXCEPT ![t] = NoConnection]
    /\ iter' = [iter EXCEPT ![t] = VoidList]
    /\ idx' = [idx EXCEPT ![t] = 0]
    /\ instantiated' = [instantiated EXCEPT ![t] = <<>>]
    /\ evaluated' = [evaluated EXCEPT ![t] = <<>>]
    /\ kwargs' = [kwargs EXCEPT ![t] = <<>>]
    /\ dep_idx' = [dep_idx EXCEPT ![t] = 0]
    /\ invoked' = [invoked EXCEPT ![t] = 0]
    /\ call' = [call EXCEPT ![t] = NoCall]
    /\ trace' = [trace EXCEPT ![t] = <<>>]
    /\ response' = [response EXCEPT ![t] = NotRan]
    /\ UNCHANGED <<route, pool, active, perm_vars, deps_vars, resp_vars, cookie_vars, exc_vars>>


\* a direct call of handler.get_response_handler()
GetResponseHandler ==
    LET r == get_response_handler(response_handler, annotation, rh_builds) IN
    /\ response_handler' = r.slot
    /\ rh_builds' = r.builds
    /\ rh_ret' = r.slot
    /\ UNCHANGED <<annotation, resp_ran, handler_config, returned, produced>>
    /\ UNCHANGED <<deps_vars, perm_vars, task_vars, cookie_vars, exc_vars>>

\* handler.to_response(app, data) on a value of some runtime shape
ToResponse ==
    \E data \in ValueKinds :
        LET r == to_response(response_handler, annotation, rh_builds, data) IN
        /\ response_handler' = r.slot
        /\ rh_builds' = r.builds
        /\ rh_ret' = r.slot
        /\ resp_ran' = r.ran
        /\ UNCHANGED <<annotation, handler_config, returned, produced>>
        /\ UNCHANGED <<deps_vars, perm_vars, task_vars, cookie_vars, exc_vars>>

\* handler.to_response(app, data) on the value the handler function
\* returned: fetches the response handler and awaits it on the value
HandleResponse ==
    /\ produced = NoData
    /\ LET r == to_response(response_handler, annotation, rh_builds, returned.cls) IN
       /\ response_handler' = r.slot
       /\ rh_builds' = r.builds
       /\ rh_ret' = r.slot
       /\ resp_ran' = r.ran
       /\ produced' = RunHandler(r.ran.strategy, handler_config, returned)
    /\ UNCHANGED <<annotation, handler_config, returned>>
    /\ UNCHANGED <<deps_vars, perm_vars, task_vars, cookie_vars, exc_vars>>

\* a call of handler.get_exception_handlers()
GetExceptionHandlers ==
    /\ exc_ret' = get_exception_handlers(layer_exception_handlers)
    /\ UNCHANGED layer_exception_handlers
    /\ UNCHANGED <<deps_vars, perm_vars, task_vars, resp_vars, cookie_vars>>

\* a call of handler.get_cookies(local_cookies, other_cookies)
GetCookies ==
    /\ cookies_ret' = [set |-> TRUE, list |-> get_cookies(local_cookies, other_cookies)]
    /\ UNCHANGED <<local_cookies, other_cookies, deps_vars, perm_vars, task_vars, resp_vars,
                   exc_vars>>


\* HTTPHandler.handle: the response is produced for a connection once
\* allow_connection has returned for it, with the KwargsModel bound to the route
Dispatched(t) == pc[t] = "allowed" /\ kwargs_model > 0

\* Invoke with a validator that lets everything through
InvokeUnchecked(t, tr, kw, validate) ==
    LET parsed_kwargs == IF validate THEN parse_values_from_connection_kwargs(kw) ELSE <<>>
        checked == IF validate THEN Append(tr, Event("validate", "", kw)) ELSE tr
    IN
    /\ invoked' = [invoked EXCEPT ![t] = @ + 1]
    /\ call' = [call EXCEPT ![t] =
                   [args |-> IF route.owner_is_apiview THEN <<"owner">> ELSE <<>>,
                    kwargs |-> parsed_kwargs]]
    /\ trace' = [trace EXCEPT ![t] = Append(checked, Event("fn", "", <<>>))]
    /\ pc' = [pc EXCEPT ![t] = IF route.fn_is_async THEN "fn_await" ELSE "respond"]

\* Invoke with a partial that never binds the owner
InvokeUnbound(t, tr, kw, validate) ==
    IF validate /\ ~conn[t].valid
    THEN /\ pc' = [pc EXCEPT ![t] = "invalid"]
         /\ trace' = [trace EXCEPT ![t] = Append(tr, Event("validate", "", kw))]
         /\ UNCHANGED <<invoked, call>>
    ELSE LET parsed_kwargs == IF validate THEN parse_values_from_connection_kwargs(kw)
                              ELSE <<>>
             checked == IF validate THEN Append(tr, Event("validate", "", kw)) ELSE tr
         IN
         /\ invoked' = [invoked EXCEPT ![t] = @ + 1]
         /\ call' = [call EXCEPT ![t] = [args |-> <<>>, kwargs |-> parsed_kwargs]]
         /\ trace' = [trace EXCEPT ![t] = Append(checked, Event("fn", "", <<>>))]
         /\ pc' = [pc EXCEPT ![t] = IF route.fn_is_async THEN "fn_await" ELSE "respond"]

\* _get_response_data from the validator on: the signature model parses the
\* kwargs or raises the Validation error; the partial binds the owner when it
\* is an APIView; the function is called, and awaited when it is asynchronous.
Invoke(t, tr, kw, validate) ==
    IF validate /\ ~conn[t].valid
    THEN /\ pc' = [pc EXCEPT ![t] = "invalid"]
         /\ trace' = [trace EXCEPT ![t] = Append(tr, Event("validate", "", kw))]
         /\ UNCHANGED <<invoked, call>>
    ELSE LET parsed_kwargs == IF validate THEN parse_values_from_connection_kwargs(kw)
                              ELSE <<>>
             checked == IF validate THEN Append(tr, Event("validate", "", kw)) ELSE tr
         IN
         /\ invoked' = [invoked EXCEPT ![t] = @ + 1]
         /\ call' = [call EXCEPT ![t] =
                        [args |-> IF route.owner_is_apiview THEN <<"owner">> ELSE <<>>,
                         kwargs |-> parsed_kwargs]]
         /\ trace' = [trace EXCEPT ![t] = Append(checked, Event("fn", "", <<>>))]
         /\ pc' = [pc EXCEPT ![t] = IF route.fn_is_async THEN "fn_await" ELSE "respond"]

\* the loop over expected_dependencies from position j: call and await the
\* next resolve_dependency with the kwargs gathered so far, or go on to the
\* validator when none is left
ResolveFrom(t, tr, kw, j) ==
    /\ kwargs' = [kwargs EXCEPT ![t] = kw]
    /\ IF j <= Len(route.expected_dependencies)
       THEN /\ pc' = [pc EXCEPT ![t] = "dep_await"]
            /\ dep_idx' = [dep_idx EXCEPT ![t] = j]
            /\ trace' = [trace EXCEPT ![t] =
                            Append(tr, Event("dep", route.expected_dependencies[j].key, kw))]
            /\ UNCHANGED <<invoked, call>>
       ELSE /\ UNCHANGED dep_idx
            /\ Invoke(t, tr, kw, TRUE)

\* _get_response_data without the has_kwargs test: the kwargs are always
\* extracted, resolved and validated
GetResponseDataAlways(t) ==
    /\ t \in active
    /\ Dispatched(t)
    /\ LET asked == Append(trace[t], Event("to_kwargs", "", <<>>)) IN
       IF conn[t].body
       THEN /\ kwargs' = [kwargs EXCEPT ![t] = to_kwargs(conn[t])]
            /\ trace' = [trace EXCEPT ![t] = Append(asked, Event("body", "data", <<>>))]
            /\ pc' = [pc EXCEPT ![t] = "body_await"]
            /\ UNCHANGED <<dep_idx, invoked, call>>
       ELSE ResolveFrom(t, asked, to_kwargs(conn[t]), 1)
    /\ UNCHANGED <<route, pool, active, conn, iter, idx, instantiated, evaluated, response,
                   deps_vars, perm_vars, resp_vars, cookie_vars, exc_vars>>

\* get_response_for_request -> call_handler_function -> _get_response_data up
\* to its first await
GetResponseData(t) ==
    /\ t \in active
    /\ Dispatched(t)
    /\ IF route.has_kwargs
       THEN LET asked == Append(trace[t], Event("to_kwargs", "", <<>>)) IN
            IF conn[t].body
            THEN /\ kwargs' = [kwargs EXCEPT ![t] = to_kwargs(conn[t])]
                 /\ trace' = [trace EXCEPT ![t] = Append(asked, Event("body", "data", <<>>))]
                 /\ pc' = [pc EXCEPT ![t] = "body_await"]
                 /\ UNCHANGED <<dep_idx, invoked, call>>
            ELSE ResolveFrom(t, asked, to_kwargs(conn[t]), 1)
       ELSE /\ UNCHANGED <<kwargs, dep_idx>>
            /\ Invoke(t, trace[t], <<>>, FALSE)
    /\ UNCHANGED <<route, pool, active, conn, iter, idx, instantiated, evaluated, response,
                   deps_vars, perm_vars, resp_vars, cookie_vars, exc_vars>>

\* `kwargs["data"] = await request_data` completes
BodyStep(t) ==
    /\ t \in active
    /\ pc[t] = "body_await"
    /\ ResolveFrom(t, trace[t], kwargs[t], 1)
    /\ UNCHANGED <<route, pool, active, conn, iter, idx, instantiated, evaluated, response,
                   deps_vars, perm_vars, resp_vars, cookie_vars, exc_vars>>

\* `kwargs[dependency.key] = await resolve_dependency(...)` completes
DepStep(t) ==
    /\ t \in active
    /\ pc[t] = "dep_await"
    /\ ResolveFrom(t, trace[t],
                   BindKwarg(kwargs[t], route.expected_dependencies[dep_idx[t]].key),
                   dep_idx[t] + 1)
    /\ UNCHANGED <<route, pool, active, conn, iter, idx, instantiated, evaluated, response,
                   deps_vars, perm_vars, resp_vars, cookie_vars, exc_vars>>

\* `await fn()` completes
FnStep(t) ==
    /\ t \in active
    /\ pc[t] = "fn_await"
    /\ pc' = [pc EXCEPT ![t] = "respond"]
    /\ UNCHANGED <<route, pool, active, conn, iter, idx, instantiated, evaluated, call_vars,
                   deps_vars, perm_vars, resp_vars, cookie_vars, exc_vars>>

\* call_handler_function hands the return value to to_response
Respond(t) ==
    /\ t \in active
    /\ pc[t] = "respond"
    /\ LET r == to_response(response_handler, annotation, rh_builds, route.returns) IN
       /\ response_handler' = r.slot
       /\ rh_builds' = r.builds
       /\ rh_ret' = r.slot
       /\ resp_ran' = r.ran
       /\ response' = [response EXCEPT ![t] = r.ran]
    /\ pc' = [pc EXCEPT ![t] = "done"]
    /\ UNCHANGED <<route, pool, active, conn, iter, idx, instantiated, evaluated, kwargs,
                   dep_idx, invoked, call, trace, annotation, handler_config, returned,
                   produced, deps_vars, perm_vars, cookie_vars, exc_vars>>

\* --------------------------------------------------------- specifications
InitDeps ==
    /\ PermsUnused /\ TasksUnused /\ RespUnused /\ CookiesUnused /\ ExcUnused
    /\ layer_dependencies \in [Layers -> OptionalDicts]
    /\ signature_model = FALSE
    /\ dependencies = Void
    /\ inject_signature = [p \in Providers |-> FALSE]
    /\ kwargs_model = 0
    /\ deps_ret = NoRet
    /\ deps_walks = 0
    /\ last_op = "init"
    /\ mutations = 0

NextDeps == GetDependencies \/ CreateSignatureModel \/ MutateLayer

SpecDeps == InitDeps /\ [][NextDeps]_vars

InitPerms ==
    /\ DepsUnused /\ RespUnused /\ CookiesUnused /\ ExcUnused
    /\ layer_permissions \in [Layers -> OptionalPermLists]
    /\ permissions = VoidList
    /\ perm_builds = 0
    /\ perm_ret = VoidList
    /\ route = PlainRoute
    /\ pool = Connections
    /\ active = {"t1"}
    /\ TasksIdle

NextPerms ==
    \/ ResolvePermissions
    \/ \E t \in Tasks : AllowConnection(t)
    \/ \E t \in Tasks : AllowStep(t)
    \/ \E t \in Tasks : NextConnection(t)

SpecPerms == InitPerms /\ [][NextPerms]_vars

InitResp ==
    /\ DepsUnused /\ PermsUnused /\ TasksUnused /\ CookiesUnused /\ ExcUnused
    /\ annotation \in Annotations
    /\ response_handler = VoidHandler
    /\ rh_builds = 0
    /\ rh_ret = VoidHandler
    /\ resp_ran = NotRan
    /\ handler_config = DefaultHandler
    /\ returned = NoData
    /\ produced = NoData

NextResp == GetResponseHandler \/ ToResponse

SpecResp == InitResp /\ [][NextResp]_vars

InitCookies ==
    /\ DepsUnused /\ PermsUnused /\ TasksUnused /\ RespUnused /\ ExcUnused
    /\ local_cookies \in CookieLists
    /\ other_cookies \in CookieLists
    /\ cookies_ret = NoCookiesRet

NextCookies == GetCookies

SpecCookies == InitCookies /\ [][NextCookies]_vars

InitExc ==
    /\ DepsUnused /\ PermsUnused /\ TasksUnused /\ RespUnused /\ CookiesUnused
    /\ layer_exception_handlers \in [Layers -> OptionalExcDicts]
    /\ exc_ret = NoExcRet

NextExc == GetExceptionHandlers

SpecExc == InitExc /\ [][NextExc]_vars

\* the handlers and returned values the response strategies are run on: a
\* header only the handler declares ("h"), one only the value carries ("d"),
\* one both do ("x") and the allow header; cookies on both sides under the
\* same keys
HandlerHeaders ==
    {<<>>, <<Item("x", ResponseHeader("h-x")), Item("allow", ResponseHeader("h-allow")),
             Item("h", ResponseHeader("h-h"))>>}
DataHeaders == {<<>>, <<Item("d", "d-d"), Item("allow", "d-allow"), Item("x", "d-x")>>}
AllowHeaders == {<<>>, <<Item("allow", "GET")>>}
DataCookieLists ==
    {<<>>, <<Cookie("a", "8", NoneValue, NoneValue)>>,
     <<Cookie("b", "9", NoneValue, NoneValue)>>,
     <<Cookie("b", "9", NoneValue, NoneValue), Cookie("a", "8", NoneValue, NoneValue)>>}
StrategyHandlers ==
    {HandlerConfig(sc, mt, hd, ck, bg, al) :
        sc \in {NoStatus, 201},
        mt \in {NoMedia, EnumMedia("application/json"), StrMedia("text/plain")},
        hd \in HandlerHeaders, ck \in CookieLists, bg \in {"None", "task"},
        al \in AllowHeaders}
StrategyAnnotations == {NotAClass} \cup {[is_class |-> TRUE, bases |-> {c}] : c \in Classes}
Awaitable(data) == [data EXCEPT !.awaitable = TRUE]

\* the values a handler function with that return annotation returns
ReturnedValues(ann) ==
    IF SelectHandler(ann) = "plain"
    THEN LET values == {PlainValue("dict"), PlainValue("str")} \cup
                       {Object(c, "body", 200, StrMedia("application/json"), hd, <<>>) :
                           c \in {"JSONResponse", "ORJSONResponse"}, hd \in DataHeaders}
         IN values \cup {Awaitable(v) : v \in values}
    ELSE IF SelectHandler(ann) = "container"
    THEN {Object("ResponseContainer", "body", NoStatus, NoMedia, hd, ck) :
             hd \in DataHeaders, ck \in DataCookieLists}
    ELSE IF SelectHandler(ann) = "starlette"
    THEN {[Object("StarletteResponse", "body", 200, StrMedia("text/html"), hd, <<>>)
              EXCEPT !.set_cookies = [i \in 1..Len(ck) |-> cookie_dict(ck[i])]] :
             hd \in DataHeaders, ck \in DataCookieLists}
    ELSE {Object(c, "body", 200, StrMedia("text/html"), hd, ck) :
             c \in ann.bases, hd \in DataHeaders, ck \in DataCookieLists}

InitStrategies ==
    /\ DepsUnused /\ PermsUnused /\ TasksUnused /\ CookiesUnused /\ ExcUnused
    /\ annotation \in StrategyAnnotations
    /\ response_handler = VoidHandler
    /\ rh_builds = 0
    /\ rh_ret = VoidHandler
    /\ resp_ran = NotRan
    /\ handler_config \in StrategyHandlers
    /\ returned \in ReturnedValues(annotation)
    /\ produced = NoData

NextStrategies == GetResponseHandler \/ HandleResponse

SpecStrategies == InitStrategies /\ [][NextStrategies]_vars

\* the dependencies, permissions, routes, annotations and connections the
\* concurrent dispatch is run on
DispatchDependencies ==
    {[l \in Layers |-> IF l = 1 THEN Some(<<Item("a", 1)>>) ELSE None],
     [l \in Layers |-> IF l = 1 THEN Some(<<Item("a", 1)>>)
                       ELSE IF l = Handler THEN Some(<<Item("b", 1)>>) ELSE None]}
DispatchPermLists == {NoneList, SomeList(<<"p">>), SomeList(<<"q">>)}
DispatchRoutes ==
    {PlainRoute,
     [has_kwargs |-> TRUE, expected_dependencies |-> <<Dependency("a", {})>>,
      owner_is_apiview |-> TRUE,
      fn_is_async |-> TRUE, returns |-> "Response"]}
DispatchAnnotations ==
    {NotAClass, [is_class |-> TRUE, bases |-> {"Response", "StarletteResponse"}]}
DispatchPool ==
    {[grants |-> Perms, body |-> TRUE, valid |-> TRUE],
     [grants |-> {"p"}, body |-> FALSE, valid |-> TRUE],
     [grants |-> Perms, body |-> FALSE, valid |-> FALSE]}

InitDispatch ==
    /\ CookiesUnused /\ ExcUnused
    /\ layer_dependencies \in DispatchDependencies
    /\ signature_model = FALSE
    /\ dependencies = Void
    /\ inject_signature = [p \in Providers |-> FALSE]
    /\ kwargs_model = 0
    /\ deps_ret = NoRet
    /\ deps_walks = 0
    /\ last_op = "init"
    /\ mutations = 0
    /\ layer_permissions \in [Layers -> DispatchPermLists]
    /\ permissions = VoidList
    /\ perm_builds = 0
    /\ perm_ret = VoidList
    /\ annotation \in DispatchAnnotations
    /\ response_handler = VoidHandler
    /\ rh_builds = 0
    /\ rh_ret = VoidHandler
    /\ resp_ran = NotRan
    /\ handler_config = DefaultHandler
    /\ returned = NoData
    /\ produced = NoData
    /\ route \in DispatchRoutes
    /\ pool = DispatchPool
    /\ active = Tasks
    /\ TasksIdle

NextDispatch ==
    \/ CreateSignatureModel
    \/ GetDependencies
    \/ \E t \in Tasks : AllowConnection(t)
    \/ \E t \in Tasks : AllowStep(t)
    \/ \E t \in Tasks : GetResponseData(t)
    \/ \E t \in Tasks : BodyStep(t)
    \/ \E t \in Tasks : DepStep(t)
    \/ \E t \in Tasks : FnStep(t)
    \/ \E t \in Tasks : Respond(t)
    \/ \E t \in Tasks : NextConnection(t)

SpecDispatch == InitDispatch /\ [][NextDispatch]_vars

\* one handler call after another on every shape of parameter model: the
\* expected dependencies are listed in any order, each provider taking any
\* of the other keys as parameters (no two requiring each other)
DependencyEntries == {Dependency(k, r) : k \in Keys, r \in SUBSET Keys}
ExpectedLists ==
    {<<>>} \cup {<<d>> : d \in {e \in DependencyEntries : e.key \notin e.requires}}
           \cup {<<d[1], d[2]>> : d \in
                    {e \in DependencyEntries \X DependencyEntries :
                        /\ e[1].key # e[2].key
                        /\ e[1].key \notin e[1].requires
                        /\ e[2].key \notin e[2].requires
                        /\ ~(e[2].key \in e[1].requires /\ e[1].key \in e[2].requires)}}
CallRoutes ==
    [has_kwargs : BOOLEAN, expected_dependencies : ExpectedLists,
     owner_is_apiview : BOOLEAN, fn_is_async : BOOLEAN, returns : {"plain"}]
CallPool == {c \in Connections : c.grants = {}}

InitCall ==
    /\ PermsUnused /\ CookiesUnused /\ ExcUnused
    /\ layer_dependencies = [l \in Layers |-> IF l = 1 THEN Some(<<Item("a", 1)>>) ELSE None]
    /\ signature_model = FALSE
    /\ dependencies = Void
    /\ inject_signature = [p \in Providers |-> FALSE]
    /\ kwargs_model = 0
    /\ deps_ret = NoRet
    /\ deps_walks = 0
    /\ last_op = "init"
    /\ mutations = 0
    /\ annotation = NotAClass
    /\ response_handler = VoidHandler
    /\ rh_builds = 0
    /\ rh_ret = VoidHandler
    /\ resp_ran = NotRan
    /\ handler_config = DefaultHandler
    /\ returned = NoData
    /\ produced = NoData
    /\ route \in CallRoutes
    /\ pool = CallPool
    /\ active = {"t1"}
    /\ TasksIdle

NextCall ==
    \/ CreateSignatureModel
    \/ \E t \in Tasks : AllowConnection(t)
    \/ \E t \in Tasks : GetResponseData(t)
    \/ \E t \in Tasks : BodyStep(t)
    \/ \E t \in Tasks : DepStep(t)
    \/ \E t \in Tasks : FnStep(t)
    \/ \E t \in Tasks : Respond(t)
    \/ \E t \in Tasks : NextConnection(t)

SpecCall == InitCall /\ [][NextCall]_vars

\* ---------------------------------------------- dependency merge: claims
\* layer l binds key k to provider p (read off the layer's mapping itself)
Bound(l, k, p) ==
    /\ ~layer_dependencies[l].none
    /\ \E i \in 1..Len(layer_dependencies[l].items) :
         layer_dependencies[l].items[i] = Item(k, p)

Declares(l, k) == \E p \in Providers : Bound(l, k, p)

\* one provider under two different keys somewhere in the chain
CrossKeyDuplicate ==
    \E l1, l2 \in Layers, k1, k2 \in Keys, p \in Providers :
        k1 # k2 /\ Bound(l1, k1, p) /\ Bound(l2, k2, p)

\* a layer binds a key to the very provider the nearest outer layer declaring
\* that key binds it to
SameKeyRebind ==
    \E l1, l2 \in Layers, k \in Keys, p \in Providers :
        /\ l1 < l2 /\ Bound(l1, k, p) /\ Bound(l2, k, p)
        /\ \A l \in Layers : (l1 < l /\ l < l2) => ~Declares(l, k)

DeclaredKeys == {k \in Keys : \E l \in Layers : Declares(l, k)}

InnermostLayer(k) == CHOOSE l \in Layers :
    Declares(l, k) /\ \A m \in Layers : Declares(m, k) => m <= l

InnermostProvider(k) == CHOOSE p \in Providers : Bound(InnermostLayer(k), k, p)

\* the last step invoked get_dependencies with the signature model in place
DepsResolved ==
    /\ last_op \in {"get_dependencies", "create_signature_model"}
    /\ signature_model

\* C1: whenever one provider is bound under two different keys anywhere in the
\* chain, the get_dependencies call that walks the layers raises
\* ImproperlyConfigured instead of returning a mapping.
C1_DuplicateProviderRaises ==
    (DepsResolved /\ deps_ret.walked /\ CrossKeyDuplicate)
        => deps_ret.kind = "ImproperlyConfigured"

\* C2: on a chain where no provider sits under two keys and no layer re-binds
\* a key to the provider it already has, get_dependencies returns a mapping
\* whose keys are the declared keys, each bound to the provider of the
\* innermost layer declaring it.
C2_InnermostWins ==
    (DepsResolved /\ mutations = 0 /\ ~CrossKeyDuplicate /\ ~SameKeyRebind)
        => /\ deps_ret.kind = "return"
           /\ DictKeys(deps_ret.map) = DeclaredKeys
           /\ \A k \in DeclaredKeys : DictGet(deps_ret.map, k) = InnermostProvider(k)

\* a key declared by two layers with different providers, resolved to the inner one
C2_Witness ==
    /\ DepsResolved /\ mutations = 0 /\ ~CrossKeyDuplicate /\ ~SameKeyRebind
    /\ deps_ret.kind = "return"
    /\ \E k \in Keys, l1, l2 \in Layers, p1, p2 \in Providers :
         /\ l1 < l2 /\ p1 # p2 /\ Bound(l1, k, p1) /\ Bound(l2, k, p2)
         /\ InnermostLayer(k) = l2
         /\ DictGet(deps_ret.map, k) = p2

\* C3: get_dependencies raises only when the provider is already in the
\* accumulated map under a different key; re-binding a provider under the key
\* it already has raises nothing.
C3_OnlyCrossKeyRaises ==
    deps_ret.kind = "ImproperlyConfigured" => deps_ret.key # deps_ret.dependency_key

\* C4: once get_dependencies has returned a mapping, every later step leaves
\* the slot and the walk count alone and every later call returns that same
\* mapping instance with the same contents, whatever happened to the layers.
C4_Idempotent ==
    [][deps_ret.kind = "return" =>
         /\ dependencies' = dependencies
         /\ deps_walks' = deps_walks
         /\ deps_ret'.kind = "return"
         /\ deps_ret'.id = deps_ret.id
         /\ deps_ret'.map = deps_ret.map
         /\ (deps_ret'.walked => deps_ret.walked)]_vars

\* a cached call after a layer was changed such that a fresh walk would differ
C4_Witness ==
    /\ last_op = "get_dependencies"
    /\ deps_ret.kind = "return" /\ ~deps_ret.walked
    /\ mutations > 0
    /\ deps_ret.id = dependencies.id
    /\ WalkDependencies(LayerItems(ownership_layers(Handler), layer_dependencies),
                        <<>>).deps # deps_ret.map

\* C20: the Configuration error is never swallowed by the cache: once a call
\* of get_dependencies has raised it, the slot is left unset and, the layers
\* being what they were, the next call raises it again; no call returns a
\* mapping, complete or partial.
C20_ConfigurationErrorNotCached ==
    [][(deps_ret.kind = "ImproperlyConfigured" /\ layer_dependencies' = layer_dependencies)
          => (~dependencies.set /\ deps_ret'.kind = "ImproperlyConfigured")]_vars

\* what a walk of the chain as it stands gives
CurrentWalk ==
    WalkDependencies(LayerItems(ownership_layers(Handler), layer_dependencies), <<>>)

\* get_dependencies is called on a handler without a signature model
OutOfOrder == ~signature_model /\ last_op' = "get_dependencies"

\* create_signature_model runs on a handler that had no signature model
FirstBuild == ~signature_model /\ last_op' = "create_signature_model"

\* get_dependencies is called once the signature model is there and the slot set
LaterCall == signature_model /\ dependencies.set /\ last_op' = "get_dependencies"

C21_LayersNeverMutated ==
    [][last_op' # "mutate" =>
          /\ layer_dependencies' = layer_dependencies
          /\ inject_signature' = inject_signature]_vars

\* C22: once create_signature_model has completed, a further call leaves
\* the signature model and the kwargs model the instances the first call
\* built: no second KwargsModel is created.
C22_ModelsBuiltOnce ==
    [][kwargs_model > 0 =>
          /\ signature_model' = signature_model
          /\ kwargs_model' = kwargs_model]_vars

\* -------------------------------------------------- permissions: claims
RECURSIVE LayerPermissionsFrom(_)
\* the layers' permission sequences from layer l down to the handler, in
\* declaration order, a layer without permissions adding nothing
LayerPermissionsFrom(l) ==
    IF l > NumLayers THEN <<>>
    ELSE (IF layer_permissions[l].none THEN <<>> ELSE layer_permissions[l].items)
         \o LayerPermissionsFrom(l + 1)

Unwrapped(list) == [i \in 1..Len(list) |-> list[i].fn]

\* C5: resolve_permissions returns the layers' permission sequences
\* concatenated root-to-handler, nothing dropped, duplicated or reordered; the
\* list is built by the first call and that same list is what every later
\* call returns.
C5_PermissionsConcatenated ==
    [][/\ perm_ret'.set => Unwrapped(perm_ret'.list) = LayerPermissionsFrom(1)
       /\ perm_ret.set => perm_ret' = perm_ret
       /\ permissions.set => permissions' = permissions /\ perm_builds' = perm_builds]_vars

\* both layers contribute different sequences and allow_connection has gone
\* through the resolved list
C5_Witness ==
    /\ perm_ret.set /\ perm_ret = permissions
    /\ \A l \in Layers : ~layer_permissions[l].none /\ layer_permissions[l].items # <<>>
    /\ layer_permissions[1].items # layer_permissions[NumLayers].items
    /\ Len(perm_ret.list) >= 3
    /\ \E t \in Tasks : pc[t] = "allowed"

\* C6: allow_connection asks the permissions in list order, one at a time;
\* the first one that does not grant raises Permission-Denied at once, with no
\* later permission instantiated or asked; when all grant it returns after
\* asking every one.
C6_ShortCircuit ==
    \A t \in active :
        LET L == Unwrapped(iter[t].list)
            n == Len(evaluated[t])
        IN /\ n <= Len(L)
           /\ evaluated[t] = SubSeq(L, 1, n)
           /\ instantiated[t] = evaluated[t]
           /\ \A j \in 1..(n - 1) : L[j] \in conn[t].grants
           /\ (n >= 1 /\ L[n] \notin conn[t].grants) <=> pc[t] = "denied"
           /\ pc[t] = "perm_await" => idx[t] = n + 1
           /\ pc[t] = "allowed" => n = Len(L)

\* a denial after an earlier grant, with permissions left unasked
C6_Witness ==
    \E t \in active :
        /\ pc[t] = "denied"
        /\ Len(evaluated[t]) >= 2
        /\ Len(evaluated[t]) < Len(iter[t].list)
        /\ iter[t].list[Len(evaluated[t]) + 1].fn \in conn[t].grants

StrategyOrder == <<"container", "json", "response", "starlette">>

\* the annotation is a class deriving from a class the strategy stands for
Matches(ann, strategy) ==
    /\ ann.is_class
    /\ \/ strategy = "container" /\ "ResponseContainer" \in ann.bases
       \/ strategy = "json" /\ ("JSONResponse" \in ann.bases \/ "ORJSONResponse" \in ann.bases)
       \/ strategy = "response" /\ "Response" \in ann.bases
       \/ strategy = "starlette" /\ "StarletteResponse" \in ann.bases

\* the earliest strategy of StrategyOrder the annotation matches, else plain
FirstMatch(ann) ==
    IF \E i \in 1..Len(StrategyOrder) : Matches(ann, StrategyOrder[i])
    THEN StrategyOrder[CHOOSE i \in 1..Len(StrategyOrder) :
             /\ Matches(ann, StrategyOrder[i])
             /\ \A j \in 1..(i - 1) : ~Matches(ann, StrategyOrder[j])]
    ELSE "plain"

\* C8: the cached response handler, and the strategy that handles any value of
\* any runtime shape, is the first match of the declared annotation in the
\* order container, JSON, generic, transport-native, else plain.
C8_StrategyByAnnotation ==
    /\ response_handler.set => response_handler.strategy = FirstMatch(annotation)
    /\ rh_ret.set => rh_ret.strategy = FirstMatch(annotation)
    /\ resp_ran.strategy # "none" => resp_ran.strategy = FirstMatch(annotation)

\* an annotation matching several tests, handed a value of another shape
C8_Witness ==
    /\ resp_ran.strategy = "json"
    /\ Matches(annotation, "response") /\ Matches(annotation, "starlette")
    /\ resp_ran.data = "ResponseContainer"

\* ------------------------------------------------------- cookies: claims
LocalKeys == {local_cookies[i].key : i \in 1..Len(local_cookies)}

NormalizedList(cookies) == [i \in 1..Len(cookies) |-> cookie_dict(cookies[i])]

NotInLocal(cookie) == cookie.key \notin LocalKeys

RECURSIVE FirstOfKeyFrom(_)
\* the other cookies from position i on whose key no local cookie and no
\* earlier other cookie has
FirstOfKeyFrom(i) ==
    IF i > Len(other_cookies) THEN <<>>
    ELSE (IF /\ NotInLocal(other_cookies[i])
             /\ \A j \in 1..(i - 1) : other_cookies[j].key # other_cookies[i].key
          THEN <<other_cookies[i]>> ELSE <<>>) \o FirstOfKeyFrom(i + 1)

\* C9 as stated: the result is every local cookie, then exactly the other
\* cookies whose key no local cookie has, each list in its own order.
C9_LocalThenOtherByKey ==
    cookies_ret.set =>
        cookies_ret.list =
            NormalizedList(local_cookies \o SelectSeq(other_cookies, NotInLocal))

\* C9 amended: the result is every local cookie, then the other cookies whose
\* key no local cookie and no earlier other cookie has, each list in its own
\* order.
C9_LocalThenFirstOtherByKey ==
    cookies_ret.set =>
        cookies_ret.list = NormalizedList(local_cookies \o FirstOfKeyFrom(1))

\* local [a=1], other [a=2, b=3] gives [a=1, b=3]
C9_Witness ==
    /\ cookies_ret.set
    /\ local_cookies = <<Cookie("a", "1", NoneValue, NoneValue)>>
    /\ other_cookies = <<Cookie("a", "2", "60", "session"),
                         Cookie("b", "3", NoneValue, "tracking")>>
    /\ Len(cookies_ret.list) = 2
    /\ cookies_ret.list[1].value = "1"
    /\ cookies_ret.list[2].key = "b" /\ cookies_ret.list[2].value = "3"

\* C23: whatever the two lists, several cookies of one key inside a list
\* included, the returned list has at most one entry per key, and no entry
\* has an unset field or the description.
C23_UniqueByKey ==
    cookies_ret.set =>
        /\ \A i, j \in 1..Len(cookies_ret.list) :
              cookies_ret.list[i].key = cookies_ret.list[j].key => i = j
        /\ \A i \in 1..Len(cookies_ret.list) :
              /\ "description" \notin DOMAIN cookies_ret.list[i]
              /\ \A f \in DOMAIN cookies_ret.list[i] : cookies_ret.list[i][f] # NoneValue

C10_CachesBuiltOnce ==
    [][/\ dependencies.set => dependencies' = dependencies
       /\ permissions.set => permissions' = permissions
       /\ response_handler.set => response_handler' = response_handler
       /\ deps_walks' <= 1 /\ perm_builds' <= 1 /\ rh_builds' <= 1
       /\ \A t \in Tasks : iter'[t].set => iter'[t] = permissions'
       /\ \A t \in Tasks : response'[t].strategy # "none" =>
            /\ response'[t].id = response_handler'.id
            /\ response'[t].strategy = response_handler'.strategy
       /\ rh_ret'.set => rh_ret' = response_handler'
       /\ deps_ret'.kind = "return" =>
            deps_ret'.id = dependencies'.id /\ deps_ret'.map = dependencies'.map]_vars

\* both tasks in flight on the one permission list, one already answered by
\* the one closure
C10_Witness ==
    \E t, u \in active :
        /\ t # u
        /\ pc[t] = "done" /\ response[t].id = response_handler.id
        /\ pc[u] = "dep_await"
        /\ iter[t].set /\ iter[t].list # <<>> /\ iter[t] = iter[u] /\ iter[u] = permissions
        /\ dependencies.set /\ deps_walks = 1 /\ perm_builds = 1 /\ rh_builds = 1
\* ------------------------------------------------- handler call: claims
EventsOf(t, kinds) == {i \in 1..Len(trace[t]) : trace[t][i].ev \in kinds}

\* C11: a handler whose parameter model has no kwargs is called with the
\* empty argument set: the connection is never asked for raw values, the body
\* is never read, no provider is invoked and the validator is not run.
C11_NoKwargsNothingExtracted ==
    \A t \in Tasks :
        ~route.has_kwargs =>
            /\ EventsOf(t, {"to_kwargs", "body", "dep", "validate"}) = {}
            /\ kwargs[t] = <<>>
            /\ pc[t] \notin {"body_await", "dep_await", "invalid"}
            /\ invoked[t] > 0 => call[t].kwargs = <<>>

C11_Witness ==
    \E t \in Tasks :
        /\ ~route.has_kwargs
        /\ route.expected_dependencies # <<>>
        /\ conn[t].body /\ ~conn[t].valid
        /\ invoked[t] = 1
        /\ call[t].kwargs = <<>>
        /\ EventsOf(t, {"fn"}) # {}

ExpectedKeys == {route.expected_dependencies[i].key : i \in 1..Len(route.expected_dependencies)}
Names(kw) == {kw[i] : i \in 1..Len(kw)}
RequiresOf(key) ==
    UNION {route.expected_dependencies[i].requires :
              i \in {j \in 1..Len(route.expected_dependencies) :
                        route.expected_dependencies[j].key = key}}

\* C12: when a provider is invoked, every parameter of it that is itself an
\* expected dependency is already among the kwargs it is handed, in whatever
\* order the expected dependencies are listed.
C12_DependencyFirst ==
    \A t \in Tasks : \A i \in EventsOf(t, {"dep"}) :
        (RequiresOf(trace[t][i].key) \cap ExpectedKeys) \subseteq Names(trace[t][i].had)

Rejected(t) == EventsOf(t, {"validate"}) # {} /\ ~conn[t].valid

ValidatorOutput(t) ==
    IF EventsOf(t, {"validate"}) = {} THEN <<>>
    ELSE LET i == CHOOSE j \in EventsOf(t, {"validate"}) : TRUE IN
         [k \in 1..Len(trace[t][i].had) |-> [name |-> trace[t][i].had[k], coerced |-> TRUE]]

\* C19: when the owner is an APIView instance the handler function is called
\* with the owner as its first and only positional argument, otherwise with
\* keyword arguments only; either way the keyword arguments are exactly the
\* validator's output.
C19_OwnerBinding ==
    \A t \in Tasks :
        invoked[t] > 0 =>
            /\ route.owner_is_apiview => call[t].args = <<"owner">>
            /\ ~route.owner_is_apiview => call[t].args = <<>>
            /\ call[t].kwargs = ValidatorOutput(t)
            /\ route.has_kwargs => Names(kwargs[t]) = {call[t].kwargs[k].name :
                                                          k \in 1..Len(call[t].kwargs)}

C19_Witness ==
    \E t \in Tasks :
        /\ invoked[t] = 1
        /\ route.owner_is_apiview
        /\ call[t].args = <<"owner">>
        /\ Len(call[t].kwargs) = 3

\* ------------------------------------------- response strategies: claims
Handled(strategy) == produced # NoData /\ resp_ran.strategy = strategy

KeysOf(cookies) == {cookies[i].key : i \in 1..Len(cookies)}

RECURSIVE Without(_, _)
\* the cookies whose key is not among keys, in order
Without(cookies, keys) ==
    IF cookies = <<>> THEN <<>>
    ELSE (IF Head(cookies).key \in keys THEN <<>> ELSE <<Head(cookies)>>)
         \o Without(Tail(cookies), keys)

RECURSIVE FirstOfKeys(_, _)
\* the cookies whose key is neither among keys nor that of an earlier cookie
FirstOfKeys(cookies, keys) ==
    IF cookies = <<>> THEN <<>>
    ELSE IF Head(cookies).key \in keys THEN FirstOfKeys(Tail(cookies), keys)
    ELSE <<Head(cookies)>> \o FirstOfKeys(Tail(cookies), keys \cup {Head(cookies).key})

\* C14: a returned value that is not a JSON response instance, awaited when
\* awaitable, becomes the content of a new instance of the response class
\* with the handler's status code, media type, background and headers, on
\* which each handler cookie is set exactly once.
C14_PlainValueWrapped ==
    (Handled("plain") /\ returned.cls \notin {"JSONResponse", "ORJSONResponse"}) =>
        /\ produced.id = "new"
        /\ produced.cls = handler_config.response_class
        /\ produced.content = returned.content
        /\ ~produced.awaitable
        /\ produced.status_code = handler_config.status_code
        /\ produced.media_type.value = handler_config.media_type.value
        /\ produced.media_type.kind = "None" <=> handler_config.media_type.kind = "None"
        /\ produced.background = handler_config.background
        /\ produced.headers = handler_config.headers
        /\ produced.set_cookies = NormalizedList(handler_config.cookies)

\* a dict returned by an async function, status 201, application/json
C14_Witness ==
    /\ Handled("plain")
    /\ returned = Awaitable(PlainValue("dict"))
    /\ handler_config.status_code = 201
    /\ handler_config.media_type = EnumMedia("application/json")
    /\ handler_config.background = "task"
    /\ Len(handler_config.cookies) = 2
    /\ produced.content = "dict"
    /\ produced.status_code = 201
    /\ produced.media_type.value = "application/json"
    /\ Len(produced.set_cookies) = 2

\* what a header name is passed as when the handler and the container are
\* merged: the container's value when it declares the name
ContainerHeader(name) ==
    IF name \in DictKeys(returned.headers) THEN DictGet(returned.headers, name)
    ELSE DictGet(handler_config.headers, name).value

ContainerBuilt ==
    /\ produced.id = "new"
    /\ produced.content = returned.content
    /\ produced.status_code = handler_config.status_code
    /\ produced.media_type = handler_config.media_type
    /\ DictKeys(produced.headers) =
           DictKeys(handler_config.headers) \cup DictKeys(returned.headers)
    /\ \A name \in DictKeys(produced.headers) :
           DictGet(produced.headers, name) = ContainerHeader(name)

\* C15 as stated: the container builds the response with the handler's
\* status code and media type and the merged headers, the container's value
\* winning; the cookies set are all container cookies, then exactly the
\* handler cookies whose key no container cookie has.
C15_ContainerStrategy ==
    Handled("container") =>
        /\ ContainerBuilt
        /\ produced.set_cookies =
               NormalizedList(returned.cookies \o
                              Without(handler_config.cookies, KeysOf(returned.cookies)))

\* C15 amended: as above, the cookies set being all container cookies, then
\* the handler cookies whose key no container cookie and no earlier handler
\* cookie has.
C15_ContainerStrategyFirstOfKey ==
    Handled("container") =>
        /\ ContainerBuilt
        /\ produced.set_cookies =
               NormalizedList(returned.cookies \o
                              FirstOfKeys(handler_config.cookies, KeysOf(returned.cookies)))

\* container cookie b and handler cookies a, b: b is the container's; header
\* x is declared on both sides
C15_Witness ==
    /\ Handled("container")
    /\ KeysOf(returned.cookies) = {"b"}
    /\ Len(handler_config.cookies) = 2
    /\ KeysOf(handler_config.cookies) = {"a", "b"}
    /\ handler_config.status_code = 201
    /\ Len(produced.set_cookies) = 2
    /\ produced.set_cookies[1].value = "9"
    /\ produced.set_cookies[2].key = "a"
    /\ handler_config.headers # <<>>
    /\ DictGet(produced.headers, "x") = "d-x"
    /\ DictGet(produced.headers, "h") = "h-h"
    /\ DictGet(produced.headers, "d") = "d-d"

\* the final value of a header name on a response that is handed back: the
\* allow header's, else the response's own, else the handler's
MergedHeader(name) ==
    IF name \in DictKeys(handler_config.allow_header)
    THEN DictGet(handler_config.allow_header, name)
    ELSE IF name \in DictKeys(returned.headers) THEN DictGet(returned.headers, name)
    ELSE DictGet(handler_config.headers, name).value

HeadersMerged ==
    /\ DictKeys(produced.headers) =
           DictKeys(handler_config.headers) \cup DictKeys(returned.headers)
               \cup DictKeys(handler_config.allow_header)
    /\ \A name \in DictKeys(produced.headers) :
           DictGet(produced.headers, name) = MergedHeader(name)

SameObject ==
    /\ produced.id = "data"
    /\ produced.cls = returned.cls
    /\ produced.content = returned.content
    /\ produced.background = returned.background
    /\ produced.cookies = returned.cookies

\* the set_cookie calls made on the response: own are the cookies the
\* response has, which win by key over the handler's
OwnCookiesWin(own) ==
    LET added == SubSeq(produced.set_cookies, Len(own) + 1, Len(produced.set_cookies)) IN
    /\ Len(produced.set_cookies) >= Len(own)
    /\ SubSeq(produced.set_cookies, 1, Len(own)) = own
    /\ \A i \in 1..Len(added) :
           /\ added[i].key \notin KeysOf(own)
           /\ \E j \in 1..Len(handler_config.cookies) :
                  added[i] = cookie_dict(handler_config.cookies[j])
    /\ \A j \in 1..Len(handler_config.cookies) :
           handler_config.cookies[j].key \notin KeysOf(own) =>
               handler_config.cookies[j].key \in KeysOf(added)

C17_JsonPassThrough ==
    Handled("json") =>
        /\ SameObject
        /\ produced.headers = returned.headers
        /\ produced.set_cookies = returned.set_cookies
        /\ produced.media_type = returned.media_type
        /\ produced.status_code =
               IF handler_config.status_code # NoStatus THEN handler_config.status_code
               ELSE returned.status_code

C17_Witness ==
    /\ Handled("json")
    /\ handler_config.status_code = 201
    /\ handler_config.headers # <<>>
    /\ handler_config.cookies # <<>>
    /\ handler_config.media_type = StrMedia("text/plain")
    /\ returned.headers # <<>>
    /\ produced.status_code = 201
    /\ produced.headers = returned.headers
    /\ produced.media_type = StrMedia("text/html")
    /\ produced.set_cookies = <<>>

\* C18: the transport-native strategy merges cookies and headers as the
\* generic one does, the cookies the response already carries winning by key
\* over the handler's; the media type is set to the handler's, configured or
\* not; the status code is left alone.
C18_StarletteStrategy ==
    Handled("starlette") =>
        /\ SameObject
        /\ HeadersMerged
        /\ OwnCookiesWin(returned.set_cookies)
        /\ produced.media_type = handler_config.media_type
        /\ produced.status_code = returned.status_code

\* C18 amended: the headers are merged as the generic strategy does; every
\* handler cookie is set on the response, in order, after the cookies it
\* already carries and whatever their keys; the media type is set to the
\* handler's, configured or not; the status code is left alone.
C18_StarletteStrategyAllHandlerCookies ==
    Handled("starlette") =>
        /\ SameObject
        /\ HeadersMerged
        /\ produced.set_cookies =
               returned.set_cookies \o NormalizedList(handler_config.cookies)
        /\ produced.media_type = handler_config.media_type
        /\ produced.status_code = returned.status_code

\* the response carries cookie b, the handler declares a and b and no media
\* type: both are set on top and the media type becomes None
C18_Witness ==
    /\ Handled("starlette")
    /\ KeysOf(returned.set_cookies) = {"b"}
    /\ Len(handler_config.cookies) = 2
    /\ KeysOf(handler_config.cookies) = {"a", "b"}
    /\ Len(produced.set_cookies) = 3
    /\ handler_config.media_type = NoMedia
    /\ returned.media_type = StrMedia("text/html")
    /\ produced.media_type = NoMedia
    /\ handler_config.status_code = 201
    /\ produced.status_code = 200
    /\ handler_config.allow_header # <<>>
    /\ DictGet(produced.headers, "allow") = "GET"

RECURSIVE BoundAfter(_, _)
\* the names in kwargs once the first n expected dependencies are bound
\* onto the raw names
BoundAfter(raw, n) ==
    IF n = 0 THEN raw
    ELSE LET before == BoundAfter(raw, n - 1)
             key == route.expected_dependencies[n].key
         IN IF key \in Names(before) THEN before ELSE Append(before, key)

RawNames(t) == IF conn[t].body THEN <<"data">> ELSE <<>>

\* the events of a dispatch in the order the steps must take: the raw values,
\* the body when there is one, the first n dependencies each handed what is
\* bound so far, then the validator and the function
StepsUpTo(t, n, validated, called) ==
    (IF route.has_kwargs
     THEN <<Event("to_kwargs", "", <<>>)>>
          \o (IF conn[t].body THEN <<Event("body", "data", <<>>)>> ELSE <<>>)
          \o [i \in 1..n |-> Event("dep", route.expected_dependencies[i].key,
                                    BoundAfter(RawNames(t), i - 1))]
          \o (IF validated
              THEN <<Event("validate", "", BoundAfter(RawNames(t), n))>> ELSE <<>>)
     ELSE <<>>)
    \o (IF called THEN <<Event("fn", "", <<>>)>> ELSE <<>>)

DeclaringLayers(type) ==
    {l \in Layers : type \in DictKeys(OrEmptyDict(layer_exception_handlers[l]))}

\* the innermost of them: the one closest to the handler
MostSpecificLayer(type) ==
    CHOOSE l \in DeclaringLayers(type) : \A m \in DeclaringLayers(type) : m <= l

\* C25: the returned mapping has exactly the exception types some layer
\* declares, each bound to the handler of the innermost layer declaring it;
\* types declared only by outer layers are kept, layers without a mapping add
\* nothing, no exception handler is invoked and no layer is changed.
C25_InnermostHandlerWins ==
    exc_ret.set =>
        /\ IsDict(exc_ret.map)
        /\ DictKeys(exc_ret.map) = {type \in ExcTypes : DeclaringLayers(type) # {}}
        /\ \A type \in DictKeys(exc_ret.map) :
              DictGet(exc_ret.map, type) =
                  DictGet(layer_exception_handlers[MostSpecificLayer(type)].items, type)
        /\ exc_ret.called = {}

\* the root declares both types, the handler's own layer overrides one
C25_Witness ==
    /\ exc_ret.set
    /\ DeclaringLayers("ValueError") = Layers
    /\ DeclaringLayers("NotFound") = {1}
    /\ DictGet(layer_exception_handlers[1].items, "ValueError") = "f"
    /\ DictGet(layer_exception_handlers[Handler].items, "ValueError") = "g"
    /\ DictGet(exc_ret.map, "ValueError") = "g"
    /\ DictGet(exc_ret.map, "NotFound") =
           DictGet(layer_exception_handlers[1].items, "NotFound")

====
